---- MODULE Spec2Model ----
(***************************************************************************)
(* Booking ledger / external calendar commit protocol of                   *)
(* app/agent/tools/calendar_tools.py.                                      *)
(*                                                                         *)
(* The ledger is the Mongo "events" collection, the external calendar is   *)
(* the Google calendar behind calendar_service_instance.  Every tool call  *)
(* is a request served by one of the request slots in Procs; every awaited *)
(* ledger call and every external call is one atomic step, and the steps   *)
(* of different requests interleave freely.  An external call or a ledger  *)
(* call may fail (raise); the number of injected failures is bounded.      *)
(* Time is an integer number of time units; a timezone is its UTC offset.  *)
(* list_events and find_available_slots read the ledger in one step; the   *)
(* solver's timezones have a change of UTC offset.                         *)
(***************************************************************************)
EXTENDS Integers, FiniteSets, Sequences, TLC

\* ---------------------------------------------------------------- bounds
MaxOps == 2        \* tool calls started in one behaviour
MaxFaults == 2     \* injected failures (external or ledger) in one behaviour
MaxTime == 0       \* largest wall-clock start a caller passes

Procs == {"p1", "p2"}
Users == {"u1", "u2"}
Titles == {"a", "b"}
CreateTitles == {"a"}
Kinds == {"naive"}    \* designators of the time strings callers pass
Lens == {1}           \* lengths of the meetings callers book

NoTitle == ""      \* new_summary = None
NoTime == -9       \* an unset datetime local
NoId == 0          \* None for _id / google_event_id

\* settings.MEETING_BUFFER_MINUTES, in time units
MEETING_BUFFER_MINUTES == 1

\* current_user.get('timezone', 'UTC') as a UTC offset in time units
TzOffset(u) == IF u = "u1" THEN 0 ELSE 1

VARIABLES
    ledger,     \* the events collection: a set of event documents
    ext,        \* the external calendar: a set of events keyed by gid
    nextId,     \* next ObjectId the store assigns on insert
    nextGid,    \* next event id the provider assigns
    proc,       \* per request slot: position and locals of the running tool
    ops,        \* tool calls started so far
    faults      \* failures injected so far

vars == <<ledger, ext, nextId, nextGid, proc, ops, faults>>

\* ------------------------------------------------------- time normalizer
\* A time string: wall-clock value, designator kind, numeric offset if any.
TimeIn(w, k, o) == [wall |-> w, kind |-> k, off |-> o]

\* datetime.fromisoformat(s.replace('Z', '')); localize if naive; astimezone(UTC)
ParseUtc(t, u) ==
    IF t.kind = "offset" THEN t.wall - t.off ELSE t.wall - TzOffset(u)

\* The instant the provider reads from {'dateTime': s, 'timeZone': user tz}:
\* a designator in the string wins, the timeZone field applies to a naive one.
BodyInstant(t, u) ==
    CASE t.kind = "Z" -> t.wall
      [] t.kind = "offset" -> t.wall - t.off
      [] OTHER -> t.wall - TzOffset(u)

\* ------------------------------------------------------ conflict queries
\* a conflict filter that forgets the buffer
ConflictQueryNoBuffer(r, s, e) == r.start < e /\ r.end > s

\* confirm_and_book_event's find_one filter
ConflictQuery(r, s, e) ==
    /\ r.start < e + MEETING_BUFFER_MINUTES
    /\ r.end > s - MEETING_BUFFER_MINUTES

\* a reschedule filter without the $ne clause: the event conflicts with itself
UpdateConflictQuerySelf(r, gid, s, e) ==
    /\ r.start < e + MEETING_BUFFER_MINUTES
    /\ r.end > s - MEETING_BUFFER_MINUTES

\* update_event's find_one filter
UpdateConflictQuery(r, gid, s, e) ==
    /\ r.gid # gid
    /\ r.start < e + MEETING_BUFFER_MINUTES
    /\ r.end > s - MEETING_BUFFER_MINUTES

\* The store's uniqueness constraint on the reservation key (the slot).
DuplicateKey(L, id, s, e) ==
    \E r \in L : r.id # id /\ r.start = s /\ r.end = e

\* find_one({"google_event_id": gid})
ByGid(L, gid) == {r \in L : r.gid = gid}

\* ------------------------------------------------------------ the state
IdleProc ==
    [pc |-> "idle", op |-> "none", seq |-> 0, user |-> "u1", summary |-> NoTitle,
     hasStart |-> FALSE, sUtc |-> NoTime, eUtc |-> NoTime,
     sExt |-> NoTime, eExt |-> NoTime, gid |-> NoId, id |-> NoId,
     docTitle |-> NoTitle, docStart |-> NoTime, docEnd |-> NoTime,
     snapTitle |-> NoTitle, snapStart |-> NoTime, snapEnd |-> NoTime,
     result |-> "none", calledExt |-> FALSE]

\* A booking made before the behaviour starts: confirmed, owned by u1.
SeedDoc ==
    [id |-> 1, gid |-> 1, owner |-> "u1", title |-> "a",
     start |-> 1, end |-> 2, status |-> "confirmed"]
SeedEvent == [gid |-> 1, title |-> "a", start |-> 1, end |-> 2]

\* The stores as earlier requests left them: empty, or one booking on both
\* sides.
Init ==
    /\ \/ ledger = {} /\ ext = {} /\ nextId = 1 /\ nextGid = 1
       \/ ledger = {SeedDoc} /\ ext = {SeedEvent} /\ nextId = 2 /\ nextGid = 2
    /\ proc = [p \in Procs |-> IdleProc]
    /\ ops = 0
    /\ faults = 0

\* One booking in the ledger whose external event is still there, or was
\* removed on the provider's side (the case delete_event's HttpError handler
\* is written for).
InitGone ==
    /\ ledger = {SeedDoc} /\ nextId = 2 /\ nextGid = 2
    /\ ext = {SeedEvent} \/ ext = {}
    /\ proc = [p \in Procs |-> IdleProc]
    /\ ops = 0
    /\ faults = 0

\* A request slot is free before its first call and after a return; the slots
\* are interchangeable, so the first call of a behaviour goes to p1.
CanStart(p) ==
    /\ proc[p].pc \in {"idle", "done"}
    /\ ops < MaxOps
    /\ p = "p1" \/ ops > 0
CanFail == faults < MaxFaults

\* The tool returns: its locals are gone, the caller keeps what it asked for
\* (the operation, its user, the slot of a create, the ids) and the result.
Returned(q, res) ==
    [IdleProc EXCEPT !.pc = "done", !.op = q.op, !.seq = q.seq, !.user = q.user,
                     !.result = res,
                     !.id = q.id, !.gid = q.gid, !.calledExt = q.calledExt,
                     !.sUtc = IF q.op = "create" THEN q.sUtc ELSE NoTime,
                     !.eUtc = IF q.op = "create" THEN q.eUtc ELSE NoTime]

Finish(p, res) ==
    proc' = [proc EXCEPT ![p] = Returned(proc[p], res)]

Goto(p, next) ==
    proc' = [proc EXCEPT ![p].pc = next]

\* ------------------------------------------------------ document updates
\* the document _internal_create_event inserts
PendingDoc(id, u, title, s, e) ==
    [id |-> id, gid |-> NoId, owner |-> u, title |-> title,
     start |-> s, end |-> e, status |-> "pending"]

\* an insert whose DuplicateKeyError is swallowed
InsertResultSwallowed(dup) == "reserved"

\* insert_one's outcome as _internal_create_event maps it
InsertResult(dup) == IF dup THEN "race_lost" ELSE "reserved"

\* a finalize $set that records the event id but leaves the status
FinalizeDocNoStatus(r, gid) == [r EXCEPT !.gid = gid]

\* the $set of the finalize update_one
FinalizeDoc(r, gid) == [r EXCEPT !.gid = gid, !.status = "confirmed"]

\* a compensating action that leaves the reserved document in place
AbortKeeps(L, id) == L

\* the compensating delete_one({"_id": temp_event_id_for_db})
Abort(L, id) == {r \in L : r.id # id}

\* a local delete that removes nothing
DeleteByGidKeeps(L, gid) == L

\* delete_one({"google_event_id": event_id})
DeleteByGid(L, gid) == {r \in L : r.gid # gid}

\* response codes of the provider's delete: the event is gone / other errors
GoneStatuses == {404, 410}
OtherStatuses == {403, 500}

\* a handler that takes every provider error for already-gone
AlreadyGoneAny(status) == TRUE

\* e.resp.status in [404, 410]
AlreadyGone(status) == status \in {404, 410}

\* an ownership check that lets every caller through
OwnerOkAnyone(r, u) == TRUE

\* str(event_doc['owner_user_id']) != current_user['id']
OwnerOk(r, u) == r.owner = u

\* a reschedule that moves the start and leaves the end where it was
NewEndKeeps(newStart, r) == r.end

\* new_end_dt = new_start_dt + duration, duration = original end - start
NewEnd(newStart, r) == newStart + (r.end - r.start)

\* update_event's db_update_payload applied to a document
ApplyPayload(r, q) ==
    [r EXCEPT !.title = IF q.summary # NoTitle THEN q.summary ELSE @,
              !.start = IF q.hasStart THEN q.sUtc ELSE @,
              !.end = IF q.hasStart THEN q.eUtc ELSE @]

\* a compensating $set that restores the interval but not the title
RevertDocNoTitle(r, q) ==
    [r EXCEPT !.start = q.docStart, !.end = q.docEnd]

\* the $set of update_event's compensating update_one
RevertDoc(r, q) ==
    [r EXCEPT !.title = q.docTitle, !.start = q.docStart, !.end = q.docEnd]

\* event_on_google after update_event's edits (summary, start, end)
EditedEvent(q) ==
    [gid |-> q.gid,
     title |-> IF q.summary # NoTitle THEN q.summary ELSE q.snapTitle,
     start |-> IF q.hasStart THEN q.sUtc ELSE q.snapStart,
     end |-> IF q.hasStart THEN q.eUtc ELSE q.snapEnd]

ExtByGid(gid) == {x \in ext : x.gid = gid}

\* ----------------------------------------------------------- create flow
\* confirm_and_book_event up to the call of _internal_create_event
CreateCheck(p, u, title, s, e) ==
    LET q == [IdleProc EXCEPT !.op = "create", !.seq = ops + 1, !.user = u, !.summary = title,
                              !.sUtc = ParseUtc(s, u), !.eUtc = ParseUtc(e, u),
                              !.sExt = BodyInstant(s, u), !.eExt = BodyInstant(e, u)]
    IN  /\ CanStart(p)
        /\ ops' = ops + 1
        /\ \/ /\ proc' = [proc EXCEPT ![p] =
                    IF \E r \in ledger : ConflictQuery(r, q.sUtc, q.eUtc)
                    THEN Returned(q, "unavailable")
                    ELSE [q EXCEPT !.pc = "c_insert"]]
              /\ UNCHANGED faults
           \/ /\ CanFail
              /\ faults' = faults + 1
              /\ proc' = [proc EXCEPT ![p] =
                    Returned(q, "unexpected")]
        /\ UNCHANGED <<ledger, ext, nextId, nextGid>>

\* _internal_create_event: 1. LOCAL BOOKING
CreateInsert(p) ==
    LET q == proc[p]
        dup == DuplicateKey(ledger, nextId, q.sUtc, q.eUtc)
    IN  /\ q.pc = "c_insert"
        /\ \/ /\ InsertResult(dup) = "reserved"
              /\ ledger' = ledger \cup
                    {PendingDoc(nextId, q.user, q.summary, q.sUtc, q.eUtc)}
              /\ nextId' = nextId + 1
              /\ proc' = [proc EXCEPT ![p].pc = "c_sync", ![p].id = nextId]
              /\ UNCHANGED faults
           \/ /\ InsertResult(dup) # "reserved"
              /\ Finish(p, InsertResult(dup))
              /\ UNCHANGED <<ledger, nextId, faults>>
           \/ /\ CanFail
              /\ faults' = faults + 1
              /\ Finish(p, "unexpected")
              /\ UNCHANGED <<ledger, nextId>>
        /\ UNCHANGED <<ext, nextGid, ops>>

\* _internal_create_event: 2. EXTERNAL SYNC
CreateSync(p) ==
    LET q == proc[p]
    IN  /\ q.pc = "c_sync"
        /\ \/ /\ ext' = ext \cup {[gid |-> nextGid, title |-> q.summary,
                                   start |-> q.sExt, end |-> q.eExt]}
              /\ nextGid' = nextGid + 1
              /\ proc' = [proc EXCEPT ![p].pc = "c_finalize",
                                      ![p].gid = nextGid, ![p].calledExt = TRUE]
              /\ UNCHANGED faults
           \/ /\ CanFail
              /\ faults' = faults + 1
              /\ proc' = [proc EXCEPT ![p].pc = "c_rollback", ![p].calledExt = TRUE]
              /\ UNCHANGED <<ext, nextGid>>
        /\ UNCHANGED <<ledger, nextId, ops>>

\* a rollback whose failure is swallowed and reported as a completed rollback
RollbackFailedAsReverted(op) == "sync_failure"

\* how a call ends when its compensating ledger write raises: the exception
\* leaves the handler it was raised in; confirm_and_book_event's own except
\* catches it and returns its message, update_event has nothing around it
RollbackFailed(op) == IF op = "create" THEN "unexpected" ELSE "raised"

\* _internal_create_event: 3. FINALIZE
CreateFinalize(p) ==
    LET q == proc[p]
    IN  /\ q.pc = "c_finalize"
        /\ \/ /\ ledger' = {IF r.id = q.id THEN FinalizeDoc(r, q.gid) ELSE r :
                                r \in ledger}
              /\ Finish(p, "ok")
              /\ UNCHANGED faults
           \/ /\ CanFail
              /\ faults' = faults + 1
              /\ Goto(p, "c_rollback")
              /\ UNCHANGED ledger
        /\ UNCHANGED <<ext, nextId, nextGid, ops>>

\* _internal_create_event: COMPENSATING ACTION
CreateRollback(p) ==
    LET q == proc[p]
    IN  /\ q.pc = "c_rollback"
        /\ \/ /\ ledger' = Abort(ledger, q.id)
              /\ Finish(p, "sync_failure")
              /\ UNCHANGED faults
           \/ /\ CanFail
              /\ faults' = faults + 1
              /\ Finish(p, RollbackFailed(q.op))
              /\ UNCHANGED ledger
        /\ UNCHANGED <<ext, nextId, nextGid, ops>>

\* ----------------------------------------------------------- delete flow
\* delete_event: lookup and ownership check
DeleteStart(p, u, gid) ==
    LET q == [IdleProc EXCEPT !.op = "delete", !.seq = ops + 1, !.user = u, !.gid = gid]
        found == ByGid(ledger, gid)
    IN  /\ CanStart(p)
        /\ ops' = ops + 1
        /\ \/ /\ found = {}
              /\ proc' = [proc EXCEPT ![p] =
                    Returned(q, "not_found")]
              /\ UNCHANGED faults
           \/ /\ \E r \in found :
                    proc' = [proc EXCEPT ![p] =
                        IF OwnerOk(r, u)
                        THEN [q EXCEPT !.pc = "d_ext", !.docTitle = r.title]
                        ELSE Returned(q, "denied")]
              /\ UNCHANGED faults
           \/ /\ CanFail
              /\ faults' = faults + 1
              /\ proc' = [proc EXCEPT ![p] =
                    Returned(q, "raised")]
        /\ UNCHANGED <<ledger, ext, nextId, nextGid>>

\* delete_event: the provider's delete
DeleteExt(p) ==
    LET q == proc[p]
        \* the except HttpError branch
        Failed(st) ==
            IF AlreadyGone(st)
            THEN [q EXCEPT !.pc = "d_gone", !.calledExt = TRUE]
            ELSE Returned([q EXCEPT !.calledExt = TRUE], "ext_error")
    IN  /\ q.pc = "d_ext"
        /\ \/ /\ ExtByGid(q.gid) # {}
              /\ ext' = ext \ ExtByGid(q.gid)
              /\ proc' = [proc EXCEPT ![p].pc = "d_local", ![p].calledExt = TRUE]
              /\ UNCHANGED faults
           \/ /\ ExtByGid(q.gid) = {}
              /\ \E st \in GoneStatuses : proc' = [proc EXCEPT ![p] = Failed(st)]
              /\ UNCHANGED <<ext, faults>>
           \/ /\ CanFail
              /\ faults' = faults + 1
              /\ \E st \in OtherStatuses : proc' = [proc EXCEPT ![p] = Failed(st)]
              /\ UNCHANGED ext
        /\ UNCHANGED <<ledger, nextId, nextGid, ops>>

\* delete_event: local delete after the provider deleted the event
DeleteLocal(p) ==
    LET q == proc[p]
    IN  /\ q.pc = "d_local"
        /\ \/ /\ ledger' = DeleteByGid(ledger, q.gid)
              /\ Finish(p, "ok")
              /\ UNCHANGED faults
           \/ /\ CanFail
              /\ faults' = faults + 1
              /\ Finish(p, "unexpected")
              /\ UNCHANGED ledger
        /\ UNCHANGED <<ext, nextId, nextGid, ops>>

\* delete_event: local delete in the HttpError 404/410 handler
DeleteLocalGone(p) ==
    LET q == proc[p]
    IN  /\ q.pc = "d_gone"
        /\ \/ /\ ledger' = DeleteByGid(ledger, q.gid)
              /\ Finish(p, "ok_gone")
              /\ UNCHANGED faults
           \/ /\ CanFail
              /\ faults' = faults + 1
              /\ Finish(p, "raised")
              /\ UNCHANGED ledger
        /\ UNCHANGED <<ext, nextId, nextGid, ops>>

\* ----------------------------------------------------------- update flow
\* update_event: lookup, ownership check, computed new interval
UpdateStart(p, u, gid, hasStart, t, title) ==
    LET found == ByGid(ledger, gid)
        q == [IdleProc EXCEPT !.op = "update", !.seq = ops + 1, !.user = u, !.gid = gid,
                              !.summary = title, !.hasStart = hasStart]
        Loaded(r) ==
            [q EXCEPT !.pc = IF hasStart THEN "u_check" ELSE "u_write",
                      !.docTitle = r.title, !.docStart = r.start, !.docEnd = r.end,
                      !.sUtc = IF hasStart THEN ParseUtc(t, u) ELSE NoTime,
                      !.eUtc = IF hasStart
                               THEN NewEnd(ParseUtc(t, u), r)
                               ELSE NoTime]
    IN  /\ CanStart(p)
        /\ ops' = ops + 1
        /\ \/ /\ found = {}
              /\ proc' = [proc EXCEPT ![p] =
                    Returned(q, "not_found")]
              /\ UNCHANGED faults
           \/ /\ \E r \in found :
                    proc' = [proc EXCEPT ![p] =
                        IF ~OwnerOk(r, u)
                        THEN Returned(q, "denied")
                        ELSE IF ~hasStart /\ title = NoTitle
                        THEN Returned(q, "no_change")
                        ELSE Loaded(r)]
              /\ UNCHANGED faults
           \/ /\ CanFail
              /\ faults' = faults + 1
              /\ proc' = [proc EXCEPT ![p] =
                    Returned(q, "raised")]
        /\ UNCHANGED <<ledger, ext, nextId, nextGid>>

\* update_event: conflict check of a reschedule
UpdateCheck(p) ==
    LET q == proc[p]
    IN  /\ q.pc = "u_check"
        /\ \/ /\ IF \E r \in ledger : UpdateConflictQuery(r, q.gid, q.sUtc, q.eUtc)
                 THEN Finish(p, "unavailable")
                 ELSE Goto(p, "u_write")
              /\ UNCHANGED faults
           \/ /\ CanFail
              /\ faults' = faults + 1
              /\ Finish(p, "raised")
        /\ UNCHANGED <<ledger, ext, nextId, nextGid, ops>>

\* update_event: the optimistic local update_one
UpdateWrite(p) ==
    LET q == proc[p]
        dup == /\ q.hasStart
               /\ \E r \in ByGid(ledger, q.gid) :
                     DuplicateKey(ledger, r.id, q.sUtc, q.eUtc)
    IN  /\ q.pc = "u_write"
        /\ \/ /\ ~dup
              /\ ledger' = {IF r.gid = q.gid THEN ApplyPayload(r, q) ELSE r :
                                r \in ledger}
              /\ Goto(p, "u_get")
              /\ UNCHANGED faults
           \/ /\ dup
              /\ Finish(p, "race_lost")
              /\ UNCHANGED <<ledger, faults>>
           \/ /\ CanFail
              /\ faults' = faults + 1
              /\ Finish(p, "db_error")
              /\ UNCHANGED ledger
        /\ UNCHANGED <<ext, nextId, nextGid, ops>>

\* update_event: events().get
UpdateGet(p) ==
    LET q == proc[p]
    IN  /\ q.pc = "u_get"
        /\ \/ /\ \E x \in ExtByGid(q.gid) :
                    proc' = [proc EXCEPT ![p].pc = "u_put", ![p].calledExt = TRUE,
                                         ![p].snapTitle = x.title,
                                         ![p].snapStart = x.start,
                                         ![p].snapEnd = x.end]
              /\ UNCHANGED faults
           \/ /\ ExtByGid(q.gid) = {}
              /\ proc' = [proc EXCEPT ![p].pc = "u_revert", ![p].calledExt = TRUE]
              /\ UNCHANGED faults
           \/ /\ CanFail
              /\ faults' = faults + 1
              /\ proc' = [proc EXCEPT ![p].pc = "u_revert", ![p].calledExt = TRUE]
        /\ UNCHANGED <<ledger, ext, nextId, nextGid, ops>>

\* update_event: events().update with the edited body
UpdatePut(p) ==
    LET q == proc[p]
    IN  /\ q.pc = "u_put"
        /\ \/ /\ ExtByGid(q.gid) # {}
              /\ ext' = (ext \ ExtByGid(q.gid)) \cup {EditedEvent(q)}
              /\ Finish(p, "ok")
              /\ UNCHANGED faults
           \/ /\ ExtByGid(q.gid) = {}
              /\ Goto(p, "u_revert")
              /\ UNCHANGED <<ext, faults>>
           \/ /\ CanFail
              /\ faults' = faults + 1
              /\ Goto(p, "u_revert")
              /\ UNCHANGED ext
        /\ UNCHANGED <<ledger, nextId, nextGid, ops>>

\* update_event: COMPENSATING ACTION
UpdateRevert(p) ==
    LET q == proc[p]
    IN  /\ q.pc = "u_revert"
        /\ \/ /\ ledger' = {IF r.gid = q.gid THEN RevertDoc(r, q) ELSE r :
                                r \in ledger}
              /\ Finish(p, "sync_failure")
              /\ UNCHANGED faults
           \/ /\ CanFail
              /\ faults' = faults + 1
              /\ Finish(p, RollbackFailed(q.op))
              /\ UNCHANGED ledger
        /\ UNCHANGED <<ext, nextId, nextGid, ops>>

\* ------------------------------------------------------------ the inputs
\* start/end strings a caller passes: the same designator on both, the end
\* a length in Lens after the start
Walls == 0 .. MaxTime
\* event ids a caller can name: every id issued so far and one never issued
KnownGids == 1 .. nextGid
\* new_start_time of update_event: None or a naive time string
NewStarts == {TimeIn(NoTime, "none", 0)} \cup {TimeIn(w, "naive", 0) : w \in Walls}
\* new_summary of update_event: None or a title no booking starts with
NewTitles == {NoTitle} \cup (Titles \ CreateTitles)

Next ==
    \E p \in Procs :
        \/ \E u \in Users, title \in CreateTitles, k \in Kinds, ws \in Walls, d \in Lens :
              CreateCheck(p, u, title, TimeIn(ws, k, 0), TimeIn(ws + d, k, 0))
        \/ CreateInsert(p)
        \/ CreateSync(p)
        \/ CreateFinalize(p)
        \/ CreateRollback(p)
        \/ \E u \in Users, gid \in KnownGids : DeleteStart(p, u, gid)
        \/ DeleteExt(p)
        \/ DeleteLocal(p)
        \/ DeleteLocalGone(p)
        \/ \E u \in Users, gid \in KnownGids, t \in NewStarts,
              title \in NewTitles :
              UpdateStart(p, u, gid, t.kind # "none", t, title)
        \/ UpdateCheck(p)
        \/ UpdateWrite(p)
        \/ UpdateGet(p)
        \/ UpdatePut(p)
        \/ UpdateRevert(p)

Spec == Init /\ [][Next]_vars

\* The create, delete and update flows over every shape of time string a
\* caller can pass: naive, 'Z'-suffixed or with a numeric offset,
\* independently for start and end, the end before, at or after the start.
AnyKinds == {"naive", "Z", "offset"}
AnyLens == {0, 1, 2}
\* the numeric offset of a time string that carries one
StringOffset == 1
AnyTime(w, k) == TimeIn(w, k, IF k = "offset" THEN StringOffset ELSE 0)
AnyStarts == {TimeIn(NoTime, "none", 0)} \cup {AnyTime(w, k) : w \in Walls, k \in AnyKinds}

NextInputs ==
    \E p \in Procs :
        \/ \E u \in Users, title \in CreateTitles, ks, ke \in AnyKinds,
              ws \in Walls, d \in AnyLens :
              CreateCheck(p, u, title, AnyTime(ws, ks), AnyTime(ws + d, ke))
        \/ CreateInsert(p)
        \/ CreateSync(p)
        \/ CreateFinalize(p)
        \/ CreateRollback(p)
        \/ \E u \in Users, gid \in KnownGids : DeleteStart(p, u, gid)
        \/ DeleteExt(p)
        \/ DeleteLocal(p)
        \/ DeleteLocalGone(p)
        \/ \E u \in Users, gid \in KnownGids, t \in AnyStarts,
              title \in NewTitles :
              UpdateStart(p, u, gid, t.kind # "none", t, title)
        \/ UpdateCheck(p)
        \/ UpdateWrite(p)
        \/ UpdateGet(p)
        \/ UpdatePut(p)
        \/ UpdateRevert(p)

SpecInputs == Init /\ [][NextInputs]_vars

SpecGone == InitGone /\ [][Next]_vars

\* One earlier booking that is longer than the meetings booked from here on.
LongDoc == [SeedDoc EXCEPT !.end = 3]
LongEvent == [SeedEvent EXCEPT !.end = 3]

InitLong ==
    /\ ledger = {LongDoc} /\ ext = {LongEvent} /\ nextId = 2 /\ nextGid = 2
    /\ proc = [p \in Procs |-> IdleProc]
    /\ ops = 0
    /\ faults = 0

SpecLong == InitLong /\ [][Next]_vars

Quiescent == \A p \in Procs : proc[p].pc \in {"idle", "done"}

\* ------------------------------------------------------------ list_events
\* the view of a document: times converted to the user's timezone
LocalTime(i, u) == [wall |-> i + TzOffset(u), off |-> TzOffset(u)]

View(r, u) ==
    [gid |-> r.gid, title |-> r.title,
     start |-> LocalTime(r.start, u), end |-> LocalTime(r.end, u)]

\* user_tz.localize(datetime.fromisoformat(s.replace('Z', ''))).astimezone(UTC);
\* localize raises ValueError on a string that carries an offset
RangeBound(t, u) == t.wall - TzOffset(u)
RangeOk(t) == t.kind # "offset"

\* a filter with $gt / $lt where the code has $gte / $lte
ListFilterStrict(r, lo, hi, now, u) ==
    IF lo.kind = "none" /\ hi.kind = "none"
    THEN r.start > now
    ELSE /\ lo.kind # "none" => r.start > RangeBound(lo, u)
         /\ hi.kind # "none" => r.start < RangeBound(hi, u)

\* the start_time_utc filter: the range when one is given, else upcoming
ListFilter(r, lo, hi, now, u) ==
    IF lo.kind = "none" /\ hi.kind = "none"
    THEN r.start >= now
    ELSE /\ lo.kind # "none" => r.start >= RangeBound(lo, u)
         /\ hi.kind # "none" => r.start <= RangeBound(hi, u)

\* find(query).sort("start_time_utc", 1): every order of the documents that
\* is ascending in start
StartSorted(S) ==
    {f \in [1 .. Cardinality(S) -> S] :
        /\ \A i, j \in 1 .. Cardinality(S) : i < j => f[i] # f[j]
        /\ \A i, j \in 1 .. Cardinality(S) : i < j => f[i].start <= f[j].start}

\* list_events: one read of the ledger, nothing written; a failing read is
\* not caught
ListEvents(p, u, lo, hi, now) ==
    LET q == [IdleProc EXCEPT !.pc = "done", !.op = "list", !.seq = ops + 1,
                              !.user = u]
        call == [lo |-> lo, hi |-> hi, now |-> now, views |-> <<>>]
        found == {r \in ledger : r.owner = u /\ ListFilter(r, lo, hi, now, u)}
    IN  /\ CanStart(p)
        /\ ops' = ops + 1
        /\ \/ /\ ~(RangeOk(lo) /\ RangeOk(hi))
              /\ proc' = [proc EXCEPT ![p] =
                    call @@ [q EXCEPT !.result = "bad_range"]]
              /\ UNCHANGED faults
           \/ /\ RangeOk(lo) /\ RangeOk(hi)
              /\ \E f \in StartSorted(found) :
                    proc' = [proc EXCEPT ![p] =
                        [call EXCEPT !.views =
                            [i \in 1 .. Cardinality(found) |-> View(f[i], u)]]
                        @@ [q EXCEPT !.result = "listed"]]
              /\ UNCHANGED faults
           \/ /\ CanFail
              /\ RangeOk(lo) /\ RangeOk(hi)
              /\ faults' = faults + 1
              /\ proc' = [proc EXCEPT ![p] =
                    call @@ [q EXCEPT !.result = "raised"]]
        /\ UNCHANGED <<ledger, ext, nextId, nextGid>>

\* start_time / end_time of list_events: None, a naive string, or (start
\* only) a string with an offset
NoRange == TimeIn(NoTime, "none", 0)
ListLows == {NoRange, TimeIn(0, "naive", 0), TimeIn(0, "offset", 1)}
ListHighs == {NoRange, TimeIn(2, "naive", 0)}
\* the moment of a call without a range
ListNows == {-1, 3}

\* Two earlier bookings of u1, on both sides.
LateDoc == [SeedDoc EXCEPT !.id = 2, !.gid = 2, !.title = "b", !.start = 4, !.end = 5]
LateEvent == [SeedEvent EXCEPT !.gid = 2, !.title = "b", !.start = 4, !.end = 5]

InitList ==
    /\ ledger = {SeedDoc, LateDoc} /\ ext = {SeedEvent, LateEvent}
    /\ nextId = 3 /\ nextGid = 3
    /\ proc = [p \in Procs |-> IdleProc]
    /\ ops = 0
    /\ faults = 0

\* bookings, cancellations and list_events calls
NextList ==
    \/ \E p \in Procs :
          \/ \E u \in Users, title \in CreateTitles, k \in Kinds, ws \in Walls, d \in Lens :
                CreateCheck(p, u, title, TimeIn(ws, k, 0), TimeIn(ws + d, k, 0))
          \/ CreateInsert(p)
          \/ CreateSync(p)
          \/ CreateFinalize(p)
          \/ CreateRollback(p)
          \/ \E u \in Users, gid \in KnownGids : DeleteStart(p, u, gid)
          \/ DeleteExt(p)
          \/ DeleteLocal(p)
          \/ DeleteLocalGone(p)
    \/ \E p \in Procs, u \in Users, lo \in ListLows, hi \in ListHighs :
          \E now \in IF lo = NoRange /\ hi = NoRange THEN ListNows ELSE {NoTime} :
             ListEvents(p, u, lo, hi, now)

SpecList == InitList /\ [][NextList]_vars

\* ---------------------------------------------------- availability solver
\* In this part a time unit is an hour and instants count hours from 00:00 UTC
\* of day 0.  A timezone has one change of UTC offset, at the instant "at"
\* (none when both offsets are the same); a datetime is a wall-clock value
\* with the UTC offset of the tzinfo attached to it.
DayLen == 24
COMPANY_WORKING_START_HOUR == 9
COMPANY_WORKING_END_HOUR == 17
SLOT_CHECK_DURATION_MINUTES == 1

Zone(b, a, t) == [before |-> b, after |-> a, at |-> t]
UtcZone == Zone(0, 0, 0)
\* clocks go forward on day 2: 02:00 at UTC-5 becomes 03:00 at UTC-4
WestZone == Zone(-5, -4, 55)
\* clocks go back on day 2: 03:00 at UTC+11 becomes 02:00 at UTC+10
EastZone == Zone(11, 10, 40)

\* the zone's UTC offset at an instant
Off(z, i) == IF i < z.at THEN z.before ELSE z.after

\* dt.astimezone(tz) / datetime.now(tz)
AsTz(z, i) == [wall |-> i + Off(z, i), off |-> Off(z, i)]

\* the instant an aware datetime denotes: dt.astimezone(pytz.UTC)
Instant(d) == d.wall - d.off

\* tz.localize(naive): the offset under which the wall-clock value exists;
\* the standard (smaller) offset when it exists twice or not at all
Localize(z, w) ==
    LET fits == {o \in {z.before, z.after} : Off(z, w - o) = o}
        std == IF z.before < z.after THEN z.before ELSE z.after
    IN  [wall |-> w,
         off |-> IF Cardinality(fits) = 1 THEN CHOOSE o \in fits : TRUE ELSE std]

\* dt.date()
DateOf(d) == d.wall \div DayLen

\* dt.replace(hour=h, minute=0, second=0, microsecond=0): the tzinfo stays
ReplaceHour(d, h) == [d EXCEPT !.wall = (d.wall \div DayLen) * DayLen + h]

\* dt + timedelta: wall-clock arithmetic, the tzinfo stays
Plus(d, n) == [d EXCEPT !.wall = @ + n]

\* the order of two isoformat() strings: date and time first, then the
\* offset suffix ('+' sorts before '-', then the digits)
OffTextLess(o1, o2) ==
    IF (o1 >= 0) # (o2 >= 0)
    THEN o1 >= 0
    ELSE (IF o1 >= 0 THEN o1 ELSE -o1) < (IF o2 >= 0 THEN o2 ELSE -o2)

TextLess(a, b) ==
    \/ a.wall < b.wall
    \/ a.wall = b.wall /\ OffTextLess(a.off, b.off)

\* sorted(list(set(strings)))
RECURSIVE SortedText(_)
SortedText(S) ==
    IF S = {}
    THEN <<>>
    ELSE LET m == CHOOSE x \in S : \A y \in S \ {x} : TextLess(x, y)
         IN  <<m>> \o SortedText(S \ {m})

\* the documents find_available_slots fetches
Fetched(L, searchStart, searchEnd) ==
    {r \in L : r.start >= searchStart /\ r.start < searchEnd}

\* one element of busy_blocks_utc: the document's interval widened by the
\* buffer on both sides
BusyBlock(r) ==
    [start |-> r.start - MEETING_BUFFER_MINUTES,
     end |-> r.end + MEETING_BUFFER_MINUTES]

\* busy_blocks_utc
BusyBlocks(L, searchStart, searchEnd) ==
    {BusyBlock(r) : r \in Fetched(L, searchStart, searchEnd)}

\* a slot test that also rejects a slot touching the end of a busy block
SlotOverlapsInclusive(slotStart, slotEnd, block) ==
    slotStart <= block.end /\ slotEnd > block.start

\* the test inside any(...): the slot against one busy block
SlotOverlaps(slotStart, slotEnd, block) ==
    slotStart < block.end /\ slotEnd > block.start

\* the slots find_available_slots appends, as datetimes in the user's zone
SlotSet(L, date, userTz, dur, now, companyTz) ==
    LET req == Localize(userTz, date * DayLen)
        busy == BusyBlocks(L, Instant(Plus(req, -DayLen)),
                              Instant(Plus(req, 2 * DayLen)))
        DaySlots(k) ==
            LET day == AsTz(companyTz, Instant(Plus(req, k * DayLen)))
                first == ReplaceHour(day, COMPANY_WORKING_START_HOUR)
                dayEnd == ReplaceHour(first, COMPANY_WORKING_END_HOUR)
            IN  {Plus(first, n * SLOT_CHECK_DURATION_MINUTES) :
                    n \in {m \in 0 .. DayLen :
                             first.wall + m * SLOT_CHECK_DURATION_MINUTES + dur
                                 <= dayEnd.wall}}
        Free(x) ==
            ~\E b \in busy : SlotOverlaps(Instant(x), Instant(x) + dur, b)
        Accepted(x) ==
            LET inUser == AsTz(userTz, Instant(x))
            IN  /\ Instant(inUser) > now
                /\ DateOf(inUser) = DateOf(req)
    IN  {AsTz(userTz, Instant(x)) :
            x \in {y \in DaySlots(0) \cup DaySlots(1) : Free(y) /\ Accepted(y)}}

\* a date string that is not YYYY-MM-DD
BadDate == -1

\* find_available_slots: one read of the ledger, nothing written
FindSlots(p, date, userTz, dur, now, companyTz) ==
    LET past == DateOf(Localize(userTz, date * DayLen)) < DateOf(AsTz(userTz, now))
        q == [IdleProc EXCEPT !.pc = "done", !.op = "slots", !.seq = ops + 1,
                              !.result = IF past THEN "past" ELSE "slots"]
        call == [date |-> date, userTz |-> userTz, dur |-> dur, now |-> now,
                 companyTz |-> companyTz, slots |-> <<>>]
    IN  /\ CanStart(p)
        /\ ops' = ops + 1
        /\ \/ /\ proc' = [proc EXCEPT ![p] =
                    IF date = BadDate
                    THEN call @@ [q EXCEPT !.result = "bad_date"]
                    ELSE [call EXCEPT !.slots =
                              IF past
                              THEN <<>>
                              ELSE SortedText(SlotSet(ledger, date, userTz, dur,
                                                      now, companyTz))] @@ q]
              /\ UNCHANGED faults
           \/ /\ CanFail
              /\ date # BadDate
              /\ faults' = faults + 1
              /\ proc' = [proc EXCEPT ![p] =
                    call @@ [q EXCEPT !.result = "unexpected"]]
        /\ UNCHANGED <<ledger, ext, nextId, nextGid>>

\* the ledgers the solver is run on: a one-hour booking on day 2 and a booking
\* of several days that starts on day 0
ShortDoc == [SeedDoc EXCEPT !.start = 62, !.end = 63]
SpanDoc == [SeedDoc EXCEPT !.id = 2, !.gid = 2, !.start = 0, !.end = 70]

InitSlots ==
    /\ ledger \in SUBSET {ShortDoc, SpanDoc}
    /\ ext = {} /\ nextId = 3 /\ nextGid = 3
    /\ proc = [p \in Procs |-> IdleProc]
    /\ ops = 0
    /\ faults = 0

SlotDates == {BadDate, 1, 2}
SlotZones == {UtcZone, WestZone, EastZone}
CompanyZones == {UtcZone, WestZone}
SlotDurations == {1, 2}
SlotNows == {30, 60}

NextSlots ==
    \E p \in Procs, date \in SlotDates, userTz \in SlotZones,
       dur \in SlotDurations, now \in SlotNows, companyTz \in CompanyZones :
        FindSlots(p, date, userTz, dur, now, companyTz)

SpecSlots == InitSlots /\ [][NextSlots]_vars

\* ------------------------------------------------------ the conflict tests
\* The three conflict tests applied to the same candidate interval and the
\* same stored document: the query of confirm_and_book_event, the query of
\* update_event for the event gid, and the busy-block test of
\* find_available_slots on the block built from the document.
\* instants of the probed intervals: enough for a document, a candidate
\* touching it and a candidate a buffer away from it
ProbeTimes == 0 .. 3

ProbeDoc(s, e) == [SeedDoc EXCEPT !.start = s, !.end = e]
ProbeEvent(s, e) == [SeedEvent EXCEPT !.start = s, !.end = e]

InitConflict ==
    /\ \E s, e \in ProbeTimes :
          ledger = {ProbeDoc(s, e)} /\ ext = {ProbeEvent(s, e)}
    /\ nextId = 2 /\ nextGid = 2
    /\ proc = [p \in Procs |-> IdleProc]
    /\ ops = 0
    /\ faults = 0

ConflictProbe(p, r, gid, s, e) ==
    LET q == [IdleProc EXCEPT !.pc = "done", !.op = "probe", !.seq = ops + 1,
                              !.id = r.id, !.gid = gid, !.sUtc = s, !.eUtc = e,
                              !.result = "probed"]
        tests == [booking |-> ConflictQuery(r, s, e),
                  resched |-> UpdateConflictQuery(r, gid, s, e),
                  search |-> SlotOverlaps(s, e, BusyBlock(r))]
    IN  /\ CanStart(p)
        /\ ops' = ops + 1
        /\ proc' = [proc EXCEPT ![p] = tests @@ q]
        /\ UNCHANGED <<ledger, ext, nextId, nextGid, faults>>

NextConflict ==
    \E p \in Procs, r \in ledger, gid \in KnownGids, s, e \in ProbeTimes :
        ConflictProbe(p, r, gid, s, e)

SpecConflict == InitConflict /\ [][NextConflict]_vars

\* ------------------------------------------------------------ properties
Done(p, op, res) ==
    proc[p].pc = "done" /\ proc[p].op = op /\ proc[p].result = res

\* C1 (no orphan): once a create flow has returned the external-sync failure,
\* the ledger holds no document that flow inserted.
NoOrphan ==
    \A p \in Procs :
        Done(p, "create", "sync_failure") =>
            \A r \in ledger : r.id # proc[p].id

\* a create flow reserved a document, the provider's insert failed, and the
\* flow returned the external-sync failure
NoOrphanWitness ==
    \E p \in Procs :
        /\ Done(p, "create", "sync_failure")
        /\ proc[p].id # NoId
        /\ proc[p].gid = NoId
        /\ proc[p].calledExt

\* C2 (no silent data loss): the step on which an update flow returns the
\* external-sync failure leaves the targeted document with the title, start
\* and end the flow read when it began.
NoSilentDataLoss ==
    [][\A p \in Procs :
          (/\ proc[p].pc = "u_revert"
           /\ proc'[p].pc = "done"
           /\ proc'[p].result = "sync_failure")
          => \A r \in ByGid(ledger', proc[p].gid) :
                /\ r.title = proc[p].docTitle
                /\ r.start = proc[p].docStart
                /\ r.end = proc[p].docEnd]_vars

\* an update flow has returned the external-sync failure and its document is
\* still in the ledger
NoSilentDataLossWitness ==
    \E p \in Procs :
        /\ Done(p, "update", "sync_failure")
        /\ ByGid(ledger, proc[p].gid) # {}

\* The overlap of two intervals after widening one of them by the buffer on
\* both sides.
Overlaps(s1, e1, s2, e2) ==
    /\ s1 < e2 + MEETING_BUFFER_MINUTES
    /\ e1 > s2 - MEETING_BUFFER_MINUTES

\* the step on which request slot p starts a tool call
Starts(p) == ops' = ops + 1 /\ proc'[p].seq = ops'

\* the step injects no failure
NoFault == faults' = faults

Booked(p) ==
    /\ proc[p].result = "ok"
    /\ \E r \in ledger : r.id = proc[p].id /\ r.status = "confirmed"

Refused(p) == proc[p].result \in {"unavailable", "race_lost"}

\* p and q are the only two calls made, both bookings of one slot that no
\* earlier booking conflicts with, both returned, no failure injected
TwoBookings(p, q) ==
    /\ p # q
    /\ ops = 2
    /\ faults = 0
    /\ proc[p].pc = "done" /\ proc[p].op = "create"
    /\ proc[q].pc = "done" /\ proc[q].op = "create"
    /\ proc[p].sUtc = proc[q].sUtc
    /\ proc[p].eUtc = proc[q].eUtc
    /\ \A r \in ledger :
          r.id \in {proc[p].id, proc[q].id}
          \/ ~Overlaps(proc[p].sUtc, proc[p].eUtc, r.start, r.end)

\* C3: of two bookings of the identical slot, in any interleaving of their
\* steps, exactly one succeeds with a confirmed document and the other is
\* refused as slot-unavailable.
RaceExactlyOne ==
    \A p, q \in Procs :
        TwoBookings(p, q) =>
            \/ Booked(p) /\ Refused(q)
            \/ Booked(q) /\ Refused(p)

\* two bookings of one slot both passed the conflict check and the second
\* insert lost the race
RaceWitness ==
    \E p, q \in Procs :
        /\ TwoBookings(p, q)
        /\ Booked(p)
        /\ proc[q].result = "race_lost"

\* C4: no two ledger documents conflict under the buffered overlap.
NoLedgerConflict ==
    \A r1, r2 \in ledger :
        r1.id # r2.id => ~Overlaps(r1.start, r1.end, r2.start, r2.end)

\* C5: a booking whose conflict check finds a conflicting document returns
\* slot-unavailable at once: nothing is inserted, the provider is not called.
ConflictRefused ==
    [][\A p \in Procs :
          (/\ Starts(p)
           /\ NoFault
           /\ proc'[p].op = "create"
           /\ \E r \in ledger :
                 Overlaps(proc'[p].sUtc, proc'[p].eUtc, r.start, r.end))
          => /\ proc'[p].pc = "done"
             /\ proc'[p].result = "unavailable"
             /\ ~proc'[p].calledExt
             /\ ledger' = ledger
             /\ ext' = ext]_vars

\* a booking was refused by the conflict check because of a pending document
ConflictRefusedWitness ==
    \E p \in Procs :
        /\ Done(p, "create", "unavailable")
        /\ \E r \in ledger :
              /\ r.status = "pending"
              /\ Overlaps(proc[p].sUtc, proc[p].eUtc, r.start, r.end)

\* C6: a document is confirmed exactly when it carries an external id, and
\* the step on which a create flow returns success leaves that flow's
\* document confirmed with the id the provider gave its event.
ConfirmedIffExternalId ==
    /\ [](\A r \in ledger : (r.status = "confirmed") <=> (r.gid # NoId))
    /\ [][\A p \in Procs :
             (/\ proc[p].op = "create"
              /\ proc[p].pc # "done"
              /\ proc'[p].pc = "done"
              /\ proc'[p].result = "ok")
             => /\ proc'[p].gid # NoId
                /\ \E x \in ext' : x.gid = proc'[p].gid
                /\ \E r \in ledger' :
                      /\ r.id = proc'[p].id
                      /\ r.status = "confirmed"
                      /\ r.gid = proc'[p].gid]_vars

\* a create flow returned success while another document is still pending
ConfirmedWitness ==
    \E p \in Procs :
        /\ Done(p, "create", "ok")
        /\ \E r \in ledger : r.id = proc[p].id /\ r.status = "confirmed"
        /\ \E r \in ledger : r.status = "pending"

\* C7: with no call in flight, every external event has exactly one ledger
\* document carrying its id.
EveryEventTracked ==
    Quiescent =>
        \A x \in ext : Cardinality(ByGid(ledger, x.gid)) = 1

\* C8: with no call in flight, every confirmed document agrees with its
\* external event on title, start and end.
LedgerMatchesCalendar ==
    Quiescent =>
        \A r \in ledger :
            r.status = "confirmed" =>
                \E x \in ext :
                    /\ x.gid = r.gid
                    /\ x.title = r.title
                    /\ x.start = r.start
                    /\ x.end = r.end

\* C9: delete_event and update_event on an id no document carries return
\* not-found, and on a document of another owner permission-denied; either
\* way at once, with both stores unchanged and the provider not called.
LookupGuards ==
    [][\A p \in Procs :
          (/\ Starts(p)
           /\ NoFault
           /\ proc'[p].op \in {"delete", "update"})
          => LET found == ByGid(ledger, proc'[p].gid)
                 Rejected(res) ==
                     /\ proc'[p].pc = "done"
                     /\ proc'[p].result = res
                     /\ ~proc'[p].calledExt
                     /\ ledger' = ledger
                     /\ ext' = ext
             IN  /\ found = {} => Rejected("not_found")
                 /\ (\E r \in found : r.owner # proc'[p].user)
                        => Rejected("denied")]_vars

\* an update was refused for a caller who is not the owner
LookupGuardsWitness ==
    \E p \in Procs :
        /\ Done(p, "update", "denied")
        /\ \E r \in ByGid(ledger, proc[p].gid) : r.owner # proc[p].user

\* C10 (delete idempotence): when the provider reports the event gone, the
\* owner's delete_event succeeds and removes the document; a later
\* delete_event of the same id returns not-found and changes nothing.
DeleteIdempotent ==
    [][\A p \in Procs :
          /\ (/\ proc[p].pc = "d_ext"
              /\ proc'[p].pc # "d_ext"
              /\ NoFault
              /\ ExtByGid(proc[p].gid) = {})
             => proc'[p].pc = "d_gone"
          /\ (proc[p].pc = "d_gone" /\ proc'[p].pc # "d_gone" /\ NoFault)
             => /\ proc'[p].pc = "done"
                /\ proc'[p].result = "ok_gone"
                /\ ByGid(ledger', proc[p].gid) = {}
          /\ (/\ Starts(p)
              /\ NoFault
              /\ proc'[p].op = "delete"
              /\ \E q \in Procs :
                    /\ Done(q, "delete", "ok_gone")
                    /\ proc[q].gid = proc'[p].gid)
             => /\ proc'[p].pc = "done"
                /\ proc'[p].result = "not_found"
                /\ ledger' = ledger
                /\ ext' = ext]_vars

\* a delete succeeded on an event the provider reported gone, and a second
\* delete of the same id returned not-found
DeleteIdempotentWitness ==
    \E p, q \in Procs :
        /\ Done(q, "delete", "ok_gone")
        /\ Done(p, "delete", "not_found")
        /\ proc[p].gid = proc[q].gid
        /\ proc[p].seq > proc[q].seq

\* C11: when the provider's delete fails with an error other than
\* already-gone, delete_event returns that error on the same step and the
\* ledger (the targeted document included) and the calendar are as before.
ExtErrorKeepsRecord ==
    [][\A p \in Procs :
          (proc[p].pc = "d_ext" /\ proc'[p].pc # "d_ext" /\ ~NoFault)
          => /\ proc'[p].pc = "done"
             /\ proc'[p].result = "ext_error"
             /\ ByGid(ledger', proc[p].gid) = ByGid(ledger, proc[p].gid)
             /\ ledger' = ledger
             /\ ext' = ext]_vars

\* a delete returned the provider's error and its document is still there
ExtErrorKeepsRecordWitness ==
    \E p \in Procs :
        /\ Done(p, "delete", "ext_error")
        /\ proc[p].calledExt
        /\ \E r \in ByGid(ledger, proc[p].gid) : r.owner = proc[p].user

\* C12: an update_event call with a new summary and no new start never runs
\* the conflict check, and no step of it changes the start or the end of the
\* document it targets.
SummaryOnlyKeepsInterval ==
    /\ [](\A p \in Procs :
             (proc[p].op = "update" /\ proc[p].pc # "done" /\ ~proc[p].hasStart)
             => proc[p].pc # "u_check")
    /\ [][\A p \in Procs :
             (/\ proc[p].op = "update"
              /\ proc[p].pc # "done"
              /\ ~proc[p].hasStart
              /\ proc'[p] # proc[p])
             => \A r \in ledger, r2 \in ledger' :
                   (r.id = r2.id /\ r.gid = proc[p].gid)
                   => (r2.start = r.start /\ r2.end = r.end)]_vars

\* C13: the conflict check of a reschedule looks at every document other than
\* the one being updated, pending ones included: if one of them conflicts with
\* the new interval under the buffer the call returns slot-unavailable, else
\* it goes on to the write (the document's own interval never refuses it);
\* either way the check changes neither store.
RescheduleChecked ==
    [][\A p \in Procs :
          (proc[p].pc = "u_check" /\ proc'[p].pc # "u_check" /\ NoFault)
          => LET q == proc[p]
                 own == {r.id : r \in ByGid(ledger, q.gid)}
                 hit == \E r \in ledger :
                           /\ r.id \notin own
                           /\ Overlaps(q.sUtc, q.eUtc, r.start, r.end)
             IN  /\ ledger' = ledger
                 /\ ext' = ext
                 /\ hit => (proc'[p].pc = "done" /\ proc'[p].result = "unavailable")
                 /\ ~hit => proc'[p].pc = "u_write"]_vars

\* a reschedule was refused while the only other document is a pending one
RescheduleCheckedWitness ==
    \E p \in Procs :
        /\ Done(p, "update", "unavailable")
        /\ ~proc[p].calledExt
        /\ \E r \in ledger : r.status = "pending"
        /\ \A r \in ledger : r.status = "pending" \/ r.gid = proc[p].gid

\* C14: a reschedule keeps the duration.  The write of a reschedule stores the
\* requested start and, as end, that start plus the duration the document had;
\* no step changes the duration of any document; and when a reschedule returns
\* success its document has the duration read at the start of the call.
DurationPreserved ==
    [][/\ \A r \in ledger, r2 \in ledger' :
             r.id = r2.id => r2.end - r2.start = r.end - r.start
       /\ \A p \in Procs :
             LET q == proc[p]
             IN  /\ (q.pc = "u_write" /\ proc'[p].pc = "u_get" /\ q.hasStart)
                    => \A r \in ByGid(ledger, q.gid) :
                          \E r2 \in ledger' :
                             /\ r2.id = r.id
                             /\ r2.start = q.sUtc
                             /\ r2.end = q.sUtc + (r.end - r.start)
                 /\ (/\ q.op = "update" /\ q.hasStart /\ q.pc # "done"
                     /\ proc'[p].pc = "done" /\ proc'[p].result = "ok")
                    => \A r2 \in ByGid(ledger', q.gid) :
                          r2.end - r2.start = q.docEnd - q.docStart]_vars

\* a reschedule of the longer booking returned success and the document sits
\* at its new start with its old duration
DurationPreservedWitness ==
    \E p \in Procs :
        /\ Done(p, "update", "ok")
        /\ \E r \in ByGid(ledger, proc[p].gid) :
              /\ r.start # LongDoc.start
              /\ r.end - r.start = LongDoc.end - LongDoc.start
              /\ LongDoc.end - LongDoc.start \notin Lens

\* C15: every ledger document has its start before its end.
StartBeforeEnd ==
    \A r \in ledger : r.start < r.end

\* C20: the start and end a create flow stores are the instants its input
\* strings denote: a naive string read as wall-clock time in the user's
\* timezone, a string with a UTC designator or an offset as exactly that
\* instant.
StoresDenotedInstant ==
    \A p \in Procs :
        proc[p].pc \in {"c_sync", "c_finalize", "c_rollback"} =>
            \A r \in ledger :
                r.id = proc[p].id =>
                    (r.start = proc[p].sExt /\ r.end = proc[p].eExt)

\* the slots a finished find_available_slots call returned
SlotCalls == {p \in Procs : proc[p].pc = "done" /\ proc[p].op = "slots"}
SlotsOf(p) == {proc[p].slots[i] : i \in 1 .. Len(proc[p].slots)}

\* C16: no returned slot overlaps a ledger document's interval widened by the
\* buffer on both sides, so every returned slot passes the conflict check of
\* confirm_and_book_event on the same ledger.
SlotsAvoidBusy ==
    \A p \in SlotCalls :
        \A x \in SlotsOf(p), r \in ledger :
            /\ ~Overlaps(Instant(x), Instant(x) + proc[p].dur, r.start, r.end)
            /\ ~ConflictQuery(r, Instant(x), Instant(x) + proc[p].dur)

\* C17: every returned slot lies within the working hours of one day of the
\* company's timezone, has the requested date in the user's timezone and
\* starts after the current moment.
SlotsInWorkingHours ==
    \A p \in SlotCalls :
        \A x \in SlotsOf(p) :
            LET from == AsTz(proc[p].companyTz, Instant(x))
                to == AsTz(proc[p].companyTz, Instant(x) + proc[p].dur)
                day == DateOf(from) * DayLen
            IN  /\ from.wall >= day + COMPANY_WORKING_START_HOUR
                /\ to.wall <= day + COMPANY_WORKING_END_HOUR
                /\ DateOf(x) = proc[p].date
                /\ Instant(x) > proc[p].now

\* C18: the returned sequence is in strictly ascending order of the instants
\* its entries denote (so no instant occurs twice).
SlotsAscending ==
    \A p \in SlotCalls :
        \A i, j \in 1 .. Len(proc[p].slots) :
            i < j => Instant(proc[p].slots[i]) < Instant(proc[p].slots[j])

\* the step on which list_events, called by request slot p, returns events
Lists(p) == Starts(p) /\ proc'[p].op = "list" /\ proc'[p].result = "listed"

\* the views returned show the confirmed document r of the caller
Shown(p, r) ==
    \E i \in 1 .. Len(proc'[p].views) :
        LET v == proc'[p].views[i]
        IN  /\ v.gid = r.gid
            /\ v.title = r.title
            /\ Instant(v.start) = r.start
            /\ Instant(v.end) = r.end

\* the range of the call, as list_events reads it, contains the start of r
InRange(p, r) ==
    LET c == proc'[p]
    IN  /\ c.lo # NoRange \/ c.hi # NoRange
        /\ c.lo # NoRange => r.start >= RangeBound(c.lo, c.user)
        /\ c.hi # NoRange => r.start <= RangeBound(c.hi, c.user)

\* every view is the view of a document of the caller, and the views are in
\* ascending order of start
OwnAscending(p) ==
    LET c == proc'[p]
        own == {r \in ledger : r.owner = c.user}
    IN  /\ Len(c.views) <= Cardinality(own)
        /\ \A i \in 1 .. Len(c.views) : \E r \in own : c.views[i] = View(r, c.user)
        /\ \A i, j \in 1 .. Len(c.views) :
              i < j => Instant(c.views[i].start) <= Instant(c.views[j].start)

NoEscapedException == \A p \in Procs : proc[p].result # "raised"

\* a step that ends a call in its compensating ledger write although the
\* write failed
RollbackFails(p) ==
    /\ proc[p].pc \in {"c_rollback", "u_revert"}
    /\ proc'[p].pc = "done"
    /\ faults' # faults

\* C22: when the compensating ledger write itself fails, the call ends in an
\* outcome that is neither success nor the ordinary sync failure (which
\* reports the rollback as done), and the ledger keeps the value that was
\* not rolled back.
RollbackFailureDistinct ==
    [][\A p \in Procs :
          RollbackFails(p) =>
             /\ proc'[p].result \notin {"ok", "sync_failure"}
             /\ ledger' = ledger]_vars

\* a booking whose external insert failed and whose compensating delete_one
\* failed as well: the call has ended and its pending record is still there
RollbackFailureWitness ==
    \E p \in Procs :
        /\ Done(p, "create", "unexpected")
        /\ proc[p].id # NoId
        /\ proc[p].gid = NoId
        /\ \E r \in ledger : r.id = proc[p].id /\ r.status = "pending"

\* C23: a pending record is transient; once every flow has finished the
\* ledger holds no pending record.
NoPendingLeft ==
    Quiescent => \A r \in ledger : r.status # "pending"

\* the predicate of the specification: the candidate against the existing
\* interval widened by the buffer on both sides
Conflicts(candStart, candEnd, r) ==
    /\ candStart < r.end + MEETING_BUFFER_MINUTES
    /\ candEnd > r.start - MEETING_BUFFER_MINUTES

\* C24: booking, rescheduling and slot search compute the same conflict
\* predicate: for every candidate interval and existing document each test
\* reports a conflict exactly when candidateStart < existingEnd + buffer and
\* candidateEnd > existingStart - buffer (rescheduling: for every document
\* other than the one being rescheduled).
ConflictTestsAgree ==
    \A p \in Procs :
        Done(p, "probe", "probed") =>
            \A r \in ledger :
                r.id = proc[p].id =>
                    LET c == Conflicts(proc[p].sUtc, proc[p].eUtc, r)
                    IN  /\ proc[p].booking = c
                        /\ proc[p].search = c
                        /\ proc[p].resched = (c /\ r.gid # proc[p].gid)

\* a candidate that starts exactly where the existing document ends, and one
\* that starts a buffer later: the three tests report the first and pass the
\* second
ConflictTestsWitness ==
    \E p, q \in Procs :
        \E r \in ledger :
            /\ Done(p, "probe", "probed") /\ Done(q, "probe", "probed")
            /\ r.id = proc[p].id /\ r.id = proc[q].id
            /\ r.start < r.end
            /\ r.gid # proc[p].gid /\ r.gid # proc[q].gid
            /\ proc[p].sUtc = r.end /\ proc[p].eUtc > proc[p].sUtc
            /\ proc[p].booking /\ proc[p].resched /\ proc[p].search
            /\ proc[q].sUtc = r.end + MEETING_BUFFER_MINUTES
            /\ proc[q].eUtc > proc[q].sUtc
            /\ ~proc[q].booking /\ ~proc[q].resched /\ ~proc[q].search

====
